---- MODULE Spec2Model ----
(***************************************************************************)
(* PDE-BIO (pdebio.py): the summary builder get_data and the resumable     *)
(* detail extractor get_abstracts, as state machines over the two CSV      *)
(* files and the remote literature database.                               *)
(*                                                                         *)
(* A Python string is a sequence of tokens: the separators "-", "," and    *)
(* "/" and ":" are tokens of their own, every other token is a run of      *)
(* characters holding no separator.  format(), split() and join() are      *)
(* computed on these sequences.  A CSV file is a sequence of lines, a line *)
(* a sequence of fields (the csv module quotes and unquotes fields, so a   *)
(* field holding "," is one field).                                        *)
(***************************************************************************)
EXTENDS Integers, Sequences, FiniteSets, TLC

VARIABLES
    summary,         \* the summary dataset file  [exists, lines]
    detail,          \* the detail dataset file   [exists, lines]
    unlinked,        \* remote: the pmcids that have no linked pubmed record
    pc,              \* get_abstracts: position in the function
    csvdr_iterable,  \* get_abstracts: rows read from the summary dataset
    current,         \* get_abstracts: the cursor key
    skip,            \* get_abstracts
    go_on,           \* get_abstracts
    ti,              \* get_abstracts: position of termdate in csvdr_iterable
    ii,              \* get_abstracts: position of pmcid in pmcids (index + 1)
    pmid,            \* get_abstracts: result of transform_id
    article_data,    \* get_abstracts: result of fetch_article_data
    runs,            \* number of get_abstracts invocations so far
    detail0,         \* history: the detail file when the current run was invoked
    calls,           \* history: remote calls and appends of the current run
    prev,            \* history: how the previous run of get_abstracts ended
    hits,            \* remote: the IdList a search returns, by month
    gpc,             \* get_data: position in the function
    term,            \* get_data: parameter
    list_output,     \* get_data: parameter
    dates,           \* get_data
    i,               \* get_data: the request counter
    data_list,       \* get_data
    entry,           \* get_data: position of entry in data_list
    ret,             \* get_data: the value returned
    gruns,           \* number of get_data invocations so far
    summary0,        \* history: the summary file when the current get_data was invoked
    searches,        \* history: the windows searched by the current get_data
    arg,             \* a direct call of one function: the function and its arguments
    out,             \* a direct call of one function: what it returned
    returned         \* history: the list the get_data call before this one returned

----------------------------------------------------------------------------
(* Bounds *)

MaxRows == 2      \* rows of a summary dataset handed to get_abstracts
NumIds == 2       \* distinct identifiers the remote search can return
MaxRuns == 2      \* invocations of get_abstracts in one behaviour
MaxDataRuns == 2  \* invocations of get_data in one behaviour
MaxSpan == 2      \* years after the first that permutate_dates is called with
MaxAuthors == 2   \* authors of a fetched bibliographic record

----------------------------------------------------------------------------
(* Python strings and values *)

S(tok) == <<tok>>

Last(s) == s[Len(s)]

Range(f) == {f[x] : x \in DOMAIN f}

RECURSIVE SplitFrom(_, _, _, _)
SplitFrom(s, sep, n, cur) ==
    IF n > Len(s) THEN <<cur>>
    ELSE IF s[n] = sep THEN <<cur>> \o SplitFrom(s, sep, n + 1, <<>>)
    ELSE SplitFrom(s, sep, n + 1, Append(cur, s[n]))

\* str.split(sep): "".split(",") is [""]
split(s, sep) == SplitFrom(s, sep, 1, <<>>)

RECURSIVE join(_, _)
\* sep.join(list)
join(sep, list) ==
    IF Len(list) = 0 THEN <<>>
    ELSE IF Len(list) = 1 THEN list[1]
    ELSE list[1] \o sep \o join(sep, Tail(list))

\* '{}-{}-{}'.format(a, b, c)
CursorKey(a, b, c) == a \o <<"-">> \o b \o <<"-">> \o c

\* A Python value that csv.DictWriter may be handed: ty is its type, s is str(value).
PyStr(s) == [ty |-> "str", s |-> s]
PyFalse == [ty |-> "bool", s |-> <<"False">>]
PyList(rendering) == [ty |-> "list", s |-> rendering]

----------------------------------------------------------------------------
(* CSV files *)

NoFile == [exists |-> FALSE, lines |-> <<>>]
File(lines) == [exists |-> TRUE, lines |-> lines]

SummaryFields == <<S("term"), S("year"), S("date"), S("count"), S("pmcid_list")>>

DetailFields == <<S("term"), S("year"), S("date"), S("pmid"), S("pmcid"), S("link"),
                  S("title"), S("journal"), S("authors"), S("abstract")>>

\* csv.DictReader: the first line names the fields, every later line is a row
DictReader(lines) ==
    IF Len(lines) = 0 THEN <<>>
    ELSE [r \in 1..(Len(lines) - 1) |->
            [n \in Range(lines[1]) |->
                lines[r + 1][CHOOSE k \in 1..Len(lines[1]) : lines[1][k] = n]]]

----------------------------------------------------------------------------
(* permutate_dates *)

MonthsPerYear == 12

\* A product with b's index varying slowest
product_swapped(a, b) ==
    [k \in 1..(Len(a) * Len(b)) |->
        <<a[((k - 1) % Len(a)) + 1], b[((k - 1) \div Len(a)) + 1]>>]

\* itertools.product(a, b) as a list, a's index varying slowest
product(a, b) ==
    [k \in 1..(Len(a) * Len(b)) |->
        <<a[((k - 1) \div Len(b)) + 1], b[((k - 1) % Len(b)) + 1]>>]

\* zip(a, b): as long as the shorter
zip(a, b) ==
    [k \in 1..(IF Len(a) < Len(b) THEN Len(a) ELSE Len(b)) |-> <<a[k], b[k]>>]

permutate_dates(starting_year, final_year) ==
    LET years == [k \in 1..(IF final_year < starting_year THEN 0
                            ELSE final_year - starting_year + 1) |->
                    S(ToString(starting_year + k - 1))]
        month_appendages == [m \in 1..MonthsPerYear |-> S(ToString(m))]
        day_appendages_start == <<S("1")>>
        day_appendages_finish == <<S("31")>>
        ps == product(month_appendages, day_appendages_start)
        pf == product(month_appendages, day_appendages_finish)
        appendages_start == [k \in 1..Len(ps) |-> <<"/">> \o ps[k][1] \o <<"/">> \o ps[k][2]]
        appendages_finish == [k \in 1..Len(pf) |-> <<"/">> \o pf[k][1] \o <<"/">> \o pf[k][2]]
        ys == product(years, appendages_start)
        yf == product(years, appendages_finish)
        dates_start == [k \in 1..Len(ys) |-> ys[k][1] \o ys[k][2]]
        dates_finish == [k \in 1..Len(yf) |-> yf[k][1] \o yf[k][2]]
        z == zip(dates_start, dates_finish)
    IN  [k \in 1..Len(z) |-> z[k][1] \o <<":">> \o z[k][2]]

----------------------------------------------------------------------------
(* The remote database *)

\* The pubmed id linked to a pmcid, when there is one
PmidOf(pmcid) == <<"p">> \o pmcid

\* Entrez.read(Entrez.elink(...)): one link set; LinkSetDb is empty when the
\* cross-reference lookup finds no linked record
Elink(pmcid, nolink) ==
    IF pmcid \in nolink \/ pmcid = <<>>
    THEN <<[LinkSetDb |-> <<>>]>>
    ELSE <<[LinkSetDb |-> <<[Link |-> <<[Id |-> PmidOf(pmcid)]>>]>>]>>

\* Entrez.read(Entrez.efetch(...)): the Article of the first PubmedArticle; has
\* holds the keys present, AuthorList the authors (each with the keys it holds)
Efetch(id) ==
    [has |-> {"ArticleTitle", "Abstract", "Journal", "AuthorList"},
     ArticleTitle |-> <<"T">> \o id,
     AbstractText |-> <<"A">> \o id,
     JournalTitle |-> S("J"),
     AuthorList |-> <<[has |-> {"LastName", "Initials"},
                       LastName |-> S("L"), Initials |-> S("I")]>>]

----------------------------------------------------------------------------
(* transform_id and fetch_article_data *)

\* The result of a call that may raise: exc is "" when it returned val
Returned(val) == [exc |-> "", val |-> val]
Raised(exc) == [exc |-> exc, val |-> PyStr(<<>>)]

\* transform_id without its except clause: the IndexError leaves the function
transform_id_raises(record) ==
    IF \/ Len(record) = 0
       \/ Len(record[1].LinkSetDb) = 0
       \/ Len(record[1].LinkSetDb[1].Link) = 0
    THEN Raised("IndexError")
    ELSE Returned(PyStr(record[1].LinkSetDb[1].Link[1].Id))

\* pmid = record[0]['LinkSetDb'][0]['Link'][0]['Id'], IndexError -> False
transform_id(record) ==
    IF \/ Len(record) = 0
       \/ Len(record[1].LinkSetDb) = 0
       \/ Len(record[1].LinkSetDb[1].Link) = 0
    THEN Returned(PyFalse)
    ELSE Returned(PyStr(record[1].LinkSetDb[1].Link[1].Id))

\* 'https://www.ncbi.nlm.nih.gov/pubmed/{}'.format(pmid)
Link(p) == <<"https://www.ncbi.nlm.nih.gov/pubmed/">> \o p.s

\* '{} {}'.format(author['LastName'], author['Initials'])
AuthorName(author) == author.LastName \o <<" ">> \o author.Initials

\* str() of a list of strings
ListStr(l) ==
    <<"[">> \o join(<<",", " ">>, [k \in 1..Len(l) |-> <<"'">> \o l[k] \o <<"'">>]) \o <<"]">>

\* The authors value after the loop of lines 212-215: the joined string, or the
\* list built so far when a KeyError left the try block
AuthorsOf(article) ==
    IF "AuthorList" \notin article.has THEN PyList(ListStr(<<>>))
    ELSE LET al == article.AuthorList
             bad == {k \in 1..Len(al) : al[k].has # {"LastName", "Initials"}}
             names == [k \in 1..Len(al) |-> AuthorName(al[k])]
         IN  IF bad = {} THEN PyStr(join(<<",", " ">>, names))
             ELSE LET first == CHOOSE k \in bad : \A j \in bad : k <= j
                  IN  PyList(ListStr(SubSeq(names, 1, first - 1)))

\* fetch_article_data; article is the record the remote returns for pmid (read
\* only when pmid is not False)
fetch_article_data(p, t, date, year, article) ==
    IF p.ty = "bool"
    THEN [term |-> t, year |-> year, date |-> date,
          pmid |-> PyStr(<<>>), link |-> PyStr(<<>>), title |-> PyStr(<<>>),
          journal |-> PyStr(<<>>), authors |-> PyStr(<<>>), abstract |-> PyStr(<<>>)]
    ELSE LET hasTitle == "ArticleTitle" \in article.has
             hasJournal == hasTitle /\ "Journal" \in article.has
             title == IF hasTitle THEN article.ArticleTitle ELSE <<>>
             abstract == IF hasTitle /\ "Abstract" \in article.has
                         THEN article.AbstractText ELSE <<>>
             journal == IF hasJournal THEN article.JournalTitle ELSE <<>>
             authors == IF hasJournal THEN AuthorsOf(article) ELSE PyStr(<<>>)
         IN  [term |-> t, year |-> year, date |-> date,
              pmid |-> p, link |-> PyStr(Link(p)), title |-> PyStr(title),
              journal |-> PyStr(journal), authors |-> authors,
              abstract |-> PyStr(abstract)]

NoArticle == fetch_article_data(PyFalse, <<>>, <<>>, <<>>, Efetch(<<>>))

\* The row csvwrtr.writerow writes (lines 319-328); csv writes str(value)
DetailRow(ad, p, pmcid) ==
    <<ad.term, ad.year, ad.date, p.s, pmcid, Link(p),
      ad.title.s, ad.journal.s, ad.authors.s, ad.abstract.s>>

----------------------------------------------------------------------------
(* The remote search, get_ids and construct_csv *)

\* Search terms: one plain, one holding the character "-"
Terms == {S("x"), <<"x", "-", "y">>}

Ids == [k \in 1..NumIds |-> S(ToString(k))]

RECURSIVE SubSeqOf(_, _)
\* the identifiers of ids whose position is in keep, in the order of ids
SubSeqOf(ids, keep) ==
    IF Len(ids) = 0 THEN <<>>
    ELSE SubSeqOf(SubSeq(ids, 1, Len(ids) - 1), keep)
         \o (IF Len(ids) \in keep THEN <<Last(ids)>> ELSE <<>>)

\* What a search can return as IdList: each identifier at most once
IdLists == {SubSeqOf(Ids, keep) : keep \in SUBSET (1..NumIds)}

\* Entrez.read(Entrez.esearch(...)) for '<term> AND <date>[Publication Date]':
\* table gives the IdList of the months that have hits
Esearch(date, table) ==
    LET month == split(date, "/")[2]
        ks == {k \in DOMAIN table : S(ToString(k)) = month}
    IN  IF ks = {} THEN <<>> ELSE table[CHOOSE k \in ks : TRUE]

\* get_ids, lines 33-35 and 49-51: the dictionary built from a search result
get_ids(t, date, IdList) ==
    [term |-> t, year |-> split(date, "/")[1], date |-> date,
     count |-> S(ToString(Len(IdList))), pmcid_list |-> join(<<",">>, IdList)]

\* construct_csv, lines 69-73: the row written for one dictionary
SummaryRow(id_dict) ==
    <<id_dict.term, id_dict.year, id_dict.date, id_dict.count, id_dict.pmcid_list>>

\* construct_csv writing the header on every call
NeedsHeader_always(file) == TRUE

\* construct_csv, line 67: the header is written when the file has no line
NeedsHeader(file) == Len(file.lines) = 0

\* construct_csv: open for append (creating the file), header if needed, one row
construct_csv(file, id_dict) ==
    File(file.lines
         \o (IF NeedsHeader(file) THEN <<SummaryFields>> ELSE <<>>)
         \o <<SummaryRow(id_dict)>>)

----------------------------------------------------------------------------
(* get_abstracts *)

Running == {"row", "id", "resolve", "fetch", "write", "advance"}

remote == <<unlinked, hits>>

purevars == <<arg, out>>

datavars == <<gpc, term, list_output, dates, i, data_list, entry, ret, gruns,
              summary0, searches, returned>>

termdate == csvdr_iterable[ti]
pmcids == split(termdate[S("pmcid_list")], ",")
pmcid == pmcids[ii]

\* lines 272-274: the cursor key of the last row of the detail dataset
LastRowCursor(rows2) ==
    CursorKey(Last(rows2)[S("term")], Last(rows2)[S("date")], Last(rows2)[S("pmcid")])

\* lines 279-281: the cursor key of the first identifier of the first summary row
BaselineCursor(rows) ==
    CursorKey(rows[1][S("term")], rows[1][S("date")],
              split(rows[1][S("pmcid_list")], ",")[1])

\* line 285 without the test of go_on
RowMatches_nogo(td, cur, go) ==
    /\ td[S("term")] = split(cur, "-")[1]
    /\ td[S("date")] = split(cur, "-")[2]

\* line 285
RowMatches(td, cur, go) ==
    \/ /\ td[S("term")] = split(cur, "-")[1]
       /\ td[S("date")] = split(cur, "-")[2]
    \/ go

\* line 288 taking every identifier of a matched row
IdMatches_any(id, cur, go) == TRUE

\* line 288
IdMatches(id, cur, go) == id = split(cur, "-")[3] \/ go

\* line 289 without the test of skip
Fetches_always(sk) == TRUE

\* line 289: the matched identifier is fetched unless skip is set
Fetches(sk) == ~sk

Locals(p, rows, cur, sk, go) ==
    /\ pc' = p
    /\ csvdr_iterable' = rows
    /\ current' = cur
    /\ skip' = sk
    /\ go_on' = go
    /\ ti' = 1
    /\ ii' = 1
    /\ pmid' = PyStr(<<>>)
    /\ article_data' = NoArticle

\* lines 239-281: read the summary dataset, create the detail file or read the
\* cursor from its last row, set the baseline cursor
get_abstracts_begin ==
    /\ pc \in {"idle", "done", "failed", "crashed"}
    /\ gpc \notin {"search", "write"}
    /\ runs < MaxRuns
    /\ runs' = runs + 1
    /\ prev' = pc
    /\ detail0' = detail
    /\ calls' = <<>>
    /\ LET rows == DictReader(summary.lines)
           rows2 == DictReader(detail.lines)
       IN  IF ~summary.exists
           THEN /\ detail' = detail
                /\ Locals("failed", <<>>, <<>>, FALSE, FALSE)
           ELSE IF ~detail.exists
           THEN /\ detail' = File(<<DetailFields>>)
                /\ IF Len(rows) = 0
                   THEN Locals("failed", rows, <<>>, FALSE, FALSE)
                   ELSE Locals("row", rows, BaselineCursor(rows), FALSE, FALSE)
           ELSE /\ detail' = detail
                /\ IF Len(rows2) = 0
                   THEN Locals("failed", rows, <<>>, FALSE, FALSE)
                   ELSE Locals("row", rows, LastRowCursor(rows2), TRUE, FALSE)
    /\ UNCHANGED <<summary, remote, datavars, purevars>>

\* lines 284-286: the head of the loop over the summary rows
get_abstracts_row ==
    /\ pc = "row"
    /\ IF ti > Len(csvdr_iterable)
       THEN pc' = "done" /\ UNCHANGED <<ti, ii>>
       ELSE IF RowMatches(termdate, current, go_on)
            THEN pc' = "id" /\ ii' = 1 /\ UNCHANGED ti
            ELSE pc' = "row" /\ ti' = ti + 1 /\ UNCHANGED ii
    /\ UNCHANGED <<summary, detail, csvdr_iterable, current, skip, go_on,
                   pmid, article_data, runs, detail0, calls, prev, remote, datavars, purevars>>

\* lines 287-289: the head of the loop over the identifiers of one row
get_abstracts_id ==
    /\ pc = "id"
    /\ IF ii > Len(pmcids)
       THEN pc' = "row" /\ ti' = ti + 1 /\ UNCHANGED ii
       ELSE IF IdMatches(pmcid, current, go_on)
            THEN pc' = (IF Fetches(skip) THEN "resolve" ELSE "advance")
                 /\ UNCHANGED <<ti, ii>>
            ELSE pc' = "id" /\ ii' = ii + 1 /\ UNCHANGED ti
    /\ UNCHANGED <<summary, detail, csvdr_iterable, current, skip, go_on,
                   pmid, article_data, runs, detail0, calls, prev, remote, datavars, purevars>>

\* line 291: pmid = transform_id(pmcid, ...)
get_abstracts_resolve ==
    /\ pc = "resolve"
    /\ LET r == transform_id(Elink(pmcid, unlinked))
       IN  IF r.exc # ""
           THEN pc' = "failed" /\ UNCHANGED pmid
           ELSE pc' = "fetch" /\ pmid' = r.val
    /\ calls' = Append(calls, <<"elink", ti, ii>>)
    /\ UNCHANGED <<summary, detail, csvdr_iterable, current, skip, go_on,
                   ti, ii, article_data, runs, detail0, prev, remote, datavars, purevars>>

\* lines 300-305: article_data = fetch_article_data(pmid, ...)
get_abstracts_fetch ==
    /\ pc = "fetch"
    /\ article_data' = fetch_article_data(pmid, termdate[S("term")], termdate[S("date")],
                                          termdate[S("year")], Efetch(pmid.s))
    /\ calls' = IF pmid.ty = "bool" THEN calls ELSE Append(calls, <<"efetch", ti, ii>>)
    /\ pc' = "write"
    /\ UNCHANGED <<summary, detail, csvdr_iterable, current, skip, go_on,
                   ti, ii, pmid, runs, detail0, prev, remote, datavars, purevars>>

\* The row kept in memory instead of being written to the detail file
get_abstracts_write_buffered ==
    /\ pc = "write"
    /\ calls' = Append(calls, <<"append", ti, ii>>)
    /\ pc' = "advance"
    /\ UNCHANGED <<summary, detail, csvdr_iterable, current, skip, go_on,
                   ti, ii, pmid, article_data, runs, detail0, prev, remote, datavars, purevars>>

\* lines 307-328: open the detail file for append, write one row, close it
get_abstracts_write ==
    /\ pc = "write"
    /\ detail' = File(Append(detail.lines, DetailRow(article_data, pmid, pmcid)))
    /\ calls' = Append(calls, <<"append", ti, ii>>)
    /\ pc' = "advance"
    /\ UNCHANGED <<summary, csvdr_iterable, current, skip, go_on,
                   ti, ii, pmid, article_data, runs, detail0, prev, remote, datavars, purevars>>

\* lines 330-337: move the cursor key, clear skip, set go_on, next identifier
get_abstracts_advance ==
    /\ pc = "advance"
    /\ current' = IF pmcid # Last(pmcids)
                  THEN CursorKey(termdate[S("term")], termdate[S("date")], pmcids[ii + 1])
                  ELSE current
    /\ skip' = FALSE
    /\ go_on' = TRUE
    /\ ii' = ii + 1
    /\ pc' = "id"
    /\ UNCHANGED <<summary, detail, csvdr_iterable, ti, pmid, article_data,
                   runs, detail0, calls, prev, remote, datavars, purevars>>

\* The process is stopped in the middle of a run (killed, or a remote call
\* raised): the files stay as they are, everything in memory is gone
Crash ==
    /\ pc \in Running
    /\ Locals("crashed", <<>>, <<>>, FALSE, FALSE)
    /\ UNCHANGED <<summary, detail, runs, detail0, calls, prev, remote, datavars, purevars>>

absvars == <<detail, pc, csvdr_iterable, current, skip, go_on, ti, ii, pmid,
             article_data, runs, detail0, calls, prev>>

----------------------------------------------------------------------------
(* get_data *)

\* The years get_data is called with
Years == 2019..2020

\* No earlier call to compare the returned list with
NotAgain == [again |-> FALSE, data_list |-> <<>>]

\* lines 122-126
get_data_begin ==
    /\ gpc \in {"idle", "done", "failed"}
    /\ pc \notin Running
    /\ gruns < MaxDataRuns
    /\ \E t \in Terms, starting_year \in {2020}, final_year \in Years, lo \in BOOLEAN :
          /\ term' = t
          /\ list_output' = lo
          /\ dates' = permutate_dates(starting_year, final_year)
    /\ data_list' = <<>>
    /\ i' = 1
    /\ entry' = 1
    /\ ret' = "none"
    /\ gruns' = gruns + 1
    /\ summary0' = summary
    /\ searches' = <<>>
    /\ returned' = NotAgain
    /\ gpc' = "search"
    /\ UNCHANGED <<summary, remote, absvars, purevars>>

\* get_data called once more with the arguments of the call that has just
\* returned its list (list_output = True)
get_data_again ==
    /\ gpc = "done"
    /\ list_output = TRUE
    /\ pc \notin Running
    /\ gruns < MaxDataRuns
    /\ returned' = [again |-> TRUE, data_list |-> data_list]
    /\ data_list' = <<>>
    /\ i' = 1
    /\ entry' = 1
    /\ ret' = "none"
    /\ gruns' = gruns + 1
    /\ summary0' = summary
    /\ searches' = <<>>
    /\ gpc' = "search"
    /\ UNCHANGED <<summary, term, list_output, dates, remote, absvars, purevars>>

\* get_data writing each dictionary to the summary file as soon as it is there
get_data_search_writes ==
    /\ gpc = "search"
    /\ i <= Len(dates)
    /\ data_list' = Append(data_list, get_ids(term, dates[i], Esearch(dates[i], hits)))
    /\ summary' = IF list_output = FALSE
                  THEN construct_csv(summary, get_ids(term, dates[i], Esearch(dates[i], hits)))
                  ELSE summary
    /\ searches' = Append(searches, [date |-> dates[i], ok |-> TRUE])
    /\ i' = i + 1
    /\ UNCHANGED <<gpc, term, list_output, dates, entry, ret, gruns, summary0,
                   remote, absvars, purevars, returned>>

\* lines 127-131, the search returns: one more dictionary in data_list
get_data_search ==
    /\ gpc = "search"
    /\ i <= Len(dates)
    /\ data_list' = Append(data_list, get_ids(term, dates[i], Esearch(dates[i], hits)))
    /\ searches' = Append(searches, [date |-> dates[i], ok |-> TRUE])
    /\ i' = i + 1
    /\ UNCHANGED <<summary, gpc, term, list_output, dates, entry, ret, gruns, summary0,
                   remote, absvars, purevars, returned>>

\* get_data catching the error of a search and going on with the next window
get_data_search_skips ==
    /\ gpc = "search"
    /\ i <= Len(dates)
    /\ searches' = Append(searches, [date |-> dates[i], ok |-> FALSE])
    /\ i' = i + 1
    /\ UNCHANGED <<summary, gpc, term, list_output, dates, data_list, entry, ret, gruns,
                   summary0, remote, absvars, purevars, returned>>

\* lines 127-131, the search raises (network or service error): get_data has
\* no handler, the exception ends the call
get_data_search_fails ==
    /\ gpc = "search"
    /\ i <= Len(dates)
    /\ searches' = Append(searches, [date |-> dates[i], ok |-> FALSE])
    /\ gpc' = "failed"
    /\ UNCHANGED <<summary, term, list_output, dates, i, data_list, entry, ret, gruns,
                   summary0, remote, absvars, purevars, returned>>

\* get_data writing the summary file whatever list_output is
get_data_searched_writes ==
    /\ gpc = "search"
    /\ i > Len(dates)
    /\ gpc' = "write"
    /\ UNCHANGED <<summary, term, list_output, dates, i, data_list, entry, ret, gruns,
                   summary0, searches, remote, absvars, purevars, returned>>

\* lines 132 and 136-137: after the last window
get_data_searched ==
    /\ gpc = "search"
    /\ i > Len(dates)
    /\ IF list_output = FALSE
       THEN gpc' = "write" /\ UNCHANGED ret
       ELSE gpc' = "done" /\ ret' = "data_list"
    /\ UNCHANGED <<summary, term, list_output, dates, i, data_list, entry, gruns,
                   summary0, searches, remote, absvars, purevars, returned>>

\* lines 133-135: construct_csv for each entry, then return None
get_data_write ==
    /\ gpc = "write"
    /\ IF entry <= Len(data_list)
       THEN /\ summary' = construct_csv(summary, data_list[entry])
            /\ entry' = entry + 1
            /\ UNCHANGED <<gpc, ret>>
       ELSE /\ gpc' = "done"
            /\ ret' = "None"
            /\ UNCHANGED <<summary, entry>>
    /\ UNCHANGED <<term, list_output, dates, i, data_list, gruns, summary0, searches,
                   remote, absvars, purevars, returned>>

----------------------------------------------------------------------------
(* The summary datasets handed to get_abstracts *)

Windows == permutate_dates(2020, 2020)

\* The k-th row of a dataset whose rows have the terms ts and the lists ls: the
\* rows of one term carry the windows of permutate_dates in order, so no
\* (term, date) pair occurs twice
RowOf(ts, ls, k) ==
    SummaryRow(get_ids(ts[k],
                       Windows[Cardinality({j \in 1..k : ts[j] = ts[k]})],
                       ls[k]))

SummaryFiles ==
    UNION {{File(<<SummaryFields>> \o [k \in 1..n |-> RowOf(ts, ls, k)]) :
              ts \in [1..n -> Terms], ls \in [1..n -> IdLists]} : n \in 1..MaxRows}

\* The row get_abstracts appends for identifier id of the summary row (t, date)
WrittenRow(t, date, id) ==
    LET p == transform_id(Elink(id, {})).val
    IN  DetailRow(fetch_article_data(p, t, date, split(date, "/")[1], Efetch(p.s)), p, id)

\* The detail files an earlier run has left: the header and the row of one
\* identifier (the empty one of a zero-hit window included) of some summary row
LeftDetails ==
    {File(<<DetailFields, WrittenRow(t, Windows[w], id)>>) :
        t \in Terms, w \in 1..MaxRows, id \in Range(Ids) \cup {<<>>}}

\* The (term, date, pmcid) of the last row of a detail file
LastKey(file) ==
    LET last == Last(DictReader(file.lines))
    IN  <<last[S("term")], last[S("date")], last[S("pmcid")]>>

\* Some row of rows has the term and date of key and holds its identifier
Occurs(key, rows) ==
    \E k \in 1..Len(rows) :
        /\ rows[k][S("term")] = key[1]
        /\ rows[k][S("date")] = key[2]
        /\ \E j \in 1..Len(split(rows[k][S("pmcid_list")], ",")) :
              split(rows[k][S("pmcid_list")], ",")[j] = key[3]

----------------------------------------------------------------------------
(* Direct calls of permutate_dates and fetch_article_data *)

\* The years permutate_dates is called with, in either order
SpanYears == 2019..(2019 + MaxSpan)

\* An author of a fetched record; has holds the keys present
Authors ==
    {[has |-> h, LastName |-> S("L"), Initials |-> S("I")] :
        h \in SUBSET {"LastName", "Initials"}}

AuthorLists == UNION {[1..n -> Authors] : n \in 0..MaxAuthors}

\* The Article of a fetched record, with any of its sub-fields missing
Articles ==
    {[has |-> h, ArticleTitle |-> S("T"), AbstractText |-> S("A"),
      JournalTitle |-> S("J"), AuthorList |-> al] :
        h \in SUBSET {"ArticleTitle", "Abstract", "Journal", "AuthorList"},
        al \in AuthorLists}

\* permutate_dates(starting_year, final_year)
call_permutate_dates ==
    /\ \E starting_year \in SpanYears, final_year \in SpanYears :
          /\ arg' = [f |-> "permutate_dates", a |-> <<starting_year, final_year>>]
          /\ out' = permutate_dates(starting_year, final_year)
    /\ UNCHANGED <<summary, remote, absvars, datavars>>

\* fetch_article_data(pmid, term, date, year, ...) when the remote returns article
call_fetch_article_data ==
    /\ \E article \in Articles :
          /\ arg' = [f |-> "fetch_article_data", a |-> article]
          /\ out' = fetch_article_data(PyStr(PmidOf(Ids[1])), S("x"), Windows[1],
                                       split(Windows[1], "/")[1], article)
    /\ UNCHANGED <<summary, remote, absvars, datavars>>

----------------------------------------------------------------------------
(* Specifications *)

\* The remote search finds articles published in January only
HitTables == {<<l>> : l \in IdLists}

InitLocals ==
    /\ pc = "idle"
    /\ csvdr_iterable = <<>>
    /\ current = <<>>
    /\ skip = FALSE
    /\ go_on = FALSE
    /\ ti = 1
    /\ ii = 1
    /\ pmid = PyStr(<<>>)
    /\ article_data = NoArticle
    /\ runs = 0
    /\ detail0 = NoFile
    /\ calls = <<>>
    /\ prev = "idle"
    /\ gpc = "idle"
    /\ term = <<>>
    /\ list_output = FALSE
    /\ dates = <<>>
    /\ i = 1
    /\ data_list = <<>>
    /\ entry = 1
    /\ ret = "none"
    /\ gruns = 0
    /\ summary0 = NoFile
    /\ searches = <<>>
    /\ arg = [f |-> "none", a |-> <<>>]
    /\ out = <<>>
    /\ returned = NotAgain

\* The extractor over a given summary dataset
Init ==
    /\ summary \in SummaryFiles
    /\ detail \in {NoFile, File(<<>>)}
    /\ unlinked \in {{}, {Ids[1]}}
    /\ hits = << <<>> >>
    /\ InitLocals

Next ==
    \/ get_abstracts_begin
    \/ get_abstracts_row
    \/ get_abstracts_id
    \/ get_abstracts_resolve
    \/ get_abstracts_fetch
    \/ get_abstracts_write
    \/ get_abstracts_advance
    \/ Crash

vars == <<summary, detail, unlinked, pc, csvdr_iterable, current, skip, go_on, ti, ii,
          pmid, article_data, runs, detail0, calls, prev, hits, gpc, term,
          list_output, dates, i, data_list, entry, ret, gruns, summary0, searches,
          arg, out, returned>>

Spec == Init /\ [][Next]_vars

\* The summary builder and the extractor on the same two files, from nothing,
\* every call running until it returns or raises
InitFiles ==
    /\ summary \in {NoFile, File(<<>>)}
    /\ detail = NoFile
    /\ unlinked = {}
    /\ hits \in HitTables
    /\ InitLocals

NextFiles ==
    \/ get_data_begin
    \/ get_data_search
    \/ get_data_search_fails
    \/ get_data_searched
    \/ get_data_write
    \/ get_abstracts_begin
    \/ get_abstracts_row
    \/ get_abstracts_id
    \/ get_abstracts_resolve
    \/ get_abstracts_fetch
    \/ get_abstracts_write
    \/ get_abstracts_advance

SpecFiles == InitFiles /\ [][NextFiles]_vars

\* The summary builder alone, called again and again on the same remote
NextList ==
    \/ get_data_begin
    \/ get_data_again
    \/ get_data_search
    \/ get_data_search_fails
    \/ get_data_searched
    \/ get_data_write

SpecList == InitFiles /\ [][NextList]_vars

\* The extractor over a summary dataset that is not the one its detail file was
\* written from (the summary file was built anew since), or over no detail file
InitUnmatched ==
    /\ summary \in SummaryFiles
    /\ detail \in {NoFile} \cup
                  {f \in LeftDetails : ~Occurs(LastKey(f), DictReader(summary.lines))}
    /\ unlinked = {}
    /\ hits = << <<>> >>
    /\ InitLocals

SpecUnmatched == InitUnmatched /\ [][Next]_vars

\* The two functions called directly, on every argument within the bounds
InitPure ==
    /\ summary = NoFile
    /\ detail = NoFile
    /\ unlinked = {}
    /\ hits = << <<>> >>
    /\ InitLocals

NextPure ==
    \/ call_permutate_dates
    \/ call_fetch_article_data

SpecPure == InitPure /\ [][NextPure]_vars

----------------------------------------------------------------------------
(* Vocabulary of the properties *)

Rows(file) == DictReader(file.lines)

\* The identifiers of a stored pmcid_list: the list that was comma-joined
Identifiers(pmcid_list) == IF pmcid_list = <<>> THEN <<>> ELSE split(pmcid_list, ",")

RECURSIVE Flatten(_)
\* The (term, date, identifier) stream of summary rows: row order, then list order
Flatten(rows) ==
    IF Len(rows) = 0 THEN <<>>
    ELSE LET td == rows[1]
             ids == Identifiers(td[S("pmcid_list")])
         IN  [k \in 1..Len(ids) |-> <<td[S("term")], td[S("date")], ids[k]>>]
             \o Flatten(Tail(rows))

IdStream == Flatten(Rows(summary))

\* The (term, date, pmcid) keys of the body rows of a detail file
DetailKeys(file) ==
    [k \in 1..Len(Rows(file)) |->
        <<Rows(file)[k][S("term")], Rows(file)[k][S("date")], Rows(file)[k][S("pmcid")]>>]

IsPrefix(a, b) == Len(a) <= Len(b) /\ SubSeq(b, 1, Len(a)) = a

\* A run of get_abstracts is under way or has just ended
InRun == pc \in Running \cup {"done", "failed"}

\* The positions (row, place in the row's split list) the loops of a run visit
Positions ==
    {q \in (1..Len(csvdr_iterable)) \X (1..(NumIds + 1)) :
        q[2] <= Len(split(csvdr_iterable[q[1]][S("pmcid_list")], ","))}

PmcidAt(q) == split(csvdr_iterable[q[1]][S("pmcid_list")], ",")[q[2]]

Before(q1, q2) == q1[1] < q2[1] \/ (q1[1] = q2[1] /\ q1[2] < q2[2])

\* Where the last row of the detail file the run started from lies in the summary
CursorPositions ==
    IF Len(Rows(detail0)) = 0 THEN {}
    ELSE LET last == Last(Rows(detail0))
         IN  {q \in Positions :
                /\ csvdr_iterable[q[1]][S("term")] = last[S("term")]
                /\ csvdr_iterable[q[1]][S("date")] = last[S("date")]
                /\ PmcidAt(q) = last[S("pmcid")]}

Called(op, q) == \E k \in 1..Len(calls) : calls[k] = <<op, q[1], q[2]>>

HeaderCount(file, fields) == Cardinality({k \in 1..Len(file.lines) : file.lines[k] = fields})

----------------------------------------------------------------------------
(* Claims *)

\* C1: resume correctness.  When a run that started from a detail dataset holding
\* exactly the rows of records 1..k of the identifier stream has run to its end,
\* those k rows (and the header) are unchanged and the keys of the body rows are
\* the whole stream, each record once, in order.
C1_ResumeCorrectness ==
    \A k \in 1..Len(IdStream) :
        (pc = "done" /\ detail0.exists /\ DetailKeys(detail0) = SubSeq(IdStream, 1, k))
        => /\ IsPrefix(detail0.lines, detail.lines)
           /\ DetailKeys(detail) = IdStream

\* C2: from-scratch run.  When a run that found no detail file has run to its end,
\* the file is the header followed by one row per identifier of the summary
\* dataset, in stream order, the first identifier of the first row included.
C2_FromScratch ==
    (pc = "done" /\ ~detail0.exists)
    => /\ Len(detail.lines) > 0
       /\ detail.lines[1] = DetailFields
       /\ DetailKeys(detail) = IdStream

\* C3: crash-restart.  The invocation that follows a stopped run does not fail,
\* and when it runs to the end the detail dataset holds the rows of records 1..N
\* once each, in stream order.
C3_CrashRestart ==
    (prev = "crashed" /\ InRun)
    => /\ pc # "failed"
       /\ pc = "done" => DetailKeys(detail) = IdStream

\* C4: a detail file that exists but has no body row (header only, or no byte at
\* all) does not abort the run.
C4_EmptyDetailRuns ==
    (InRun /\ detail0.exists /\ Len(Rows(detail0)) = 0) => pc # "failed"

\* C5: ordering invariant.  The keys of the detail body rows are at every moment a
\* prefix of the summary's (term, date, identifier) stream, and the lines a run
\* started from stay as its first lines.
C5_PrefixInvariant ==
    /\ IsPrefix(DetailKeys(detail), IdStream)
    /\ InRun => IsPrefix(detail0.lines, detail.lines)

C7_BlankRecord ==
    (pc = "advance" /\ Len(calls) > 0 /\ Last(calls) = <<"append", ti, ii>>
       /\ pmid.ty = "bool")
    => LET row == Last(Rows(detail))
       IN  /\ row[S("pmid")] = <<>>
           /\ row[S("title")] = <<>>
           /\ row[S("journal")] = <<>>
           /\ row[S("authors")] = <<>>
           /\ row[S("abstract")] = <<>>

\* The cross-reference lookup for the identifier at q returns no linked record
NoLinkAt(q) == Len(Elink(PmcidAt(q), unlinked)[1].LinkSetDb) = 0

\* C8: not-found never halts the batch.  A run fails only before its first remote
\* call (no resolve call ends it), and when a run has reached its end, every
\* identifier whose lookup returned no linked record has its row appended and
\* every identifier after it in the summary has been resolved and appended too.
C8_NotFoundContinues ==
    /\ pc = "failed" => calls = <<>>
    /\ pc = "done" =>
         \A q \in Positions :
            (Called("elink", q) /\ NoLinkAt(q))
            => /\ Called("append", q)
               /\ \A q2 \in Positions :
                    Before(q, q2) => Called("elink", q2) /\ Called("append", q2)

C8_Witness ==
    /\ pc = "done"
    /\ \E q \in Positions :
          /\ Called("elink", q)
          /\ NoLinkAt(q)
          /\ PmcidAt(q) # <<>>
          /\ \E q2 \in Positions : Before(q, q2) /\ Called("append", q2)

\* C9: header only once.  A summary or detail file that has any line has the
\* header as its first line and nowhere else; a completed file-mode get_data that
\* had rows to write and a started get_abstracts leave a file with that header;
\* and a call that found a non-empty file has added no header line.
C9_HeaderOnce ==
    /\ Len(summary.lines) > 0 =>
          summary.lines[1] = SummaryFields /\ HeaderCount(summary, SummaryFields) = 1
    /\ Len(detail.lines) > 0 =>
          detail.lines[1] = DetailFields /\ HeaderCount(detail, DetailFields) = 1
    /\ (gpc = "done" /\ ret = "None" /\ Len(data_list) > 0) => Len(summary.lines) > 0
    /\ (pc \in Running \cup {"done"}) => Len(detail.lines) > 0
    /\ (gpc \in {"search", "write", "done", "failed"} /\ Len(summary0.lines) > 0) =>
          HeaderCount(summary, SummaryFields) = HeaderCount(summary0, SummaryFields)
    /\ (InRun /\ Len(detail0.lines) > 0) =>
          HeaderCount(detail, DetailFields) = HeaderCount(detail0, DetailFields)

C9_Witness ==
    /\ gpc = "done" /\ gruns >= 2
    /\ Len(summary0.lines) > 0 /\ Len(summary.lines) > Len(summary0.lines)
    /\ pc = "done" /\ runs >= 2
    /\ Len(detail0.lines) > 0 /\ Len(detail.lines) > Len(detail0.lines)

\* C10: order and abort.  The searches of a get_data call are, in order, those of
\* the windows of permutate_dates, one per window; a failed search is the last
\* one of the call; and the call goes on to write or return only after one
\* successful search per window.
C10_OrderAndAbort ==
    /\ Len(searches) <= Len(dates)
    /\ \A k \in 1..Len(searches) :
          /\ searches[k].date = dates[k]
          /\ ~searches[k].ok => k = Len(searches)
    /\ gpc \in {"write", "done"} =>
          Len(searches) = Len(dates) /\ \A k \in 1..Len(searches) : searches[k].ok
    /\ gpc = "failed" => Len(searches) > 0 /\ ~Last(searches).ok

C10_Witness ==
    /\ gpc = "failed"
    /\ Len(searches) > 1
    /\ Len(searches) < Len(dates)

\* The window of month m of year y, as the claim writes it: 'Y/M/1:Y/M/31'
WindowOf(y, m) ==
    <<ToString(y), "/", ToString(m), "/", "1", ":",
      ToString(y), "/", ToString(m), "/", "31">>

\* C11: date windower.  For starting_year <= final_year permutate_dates returns
\* 12 * (final_year - starting_year + 1) windows, ascending by year and then by
\* month 1..12, the window of year Y and month M being 'Y/M/1:Y/M/31'; for
\* starting_year > final_year it returns the empty sequence.
C11_DateWindower ==
    arg.f = "permutate_dates" =>
        LET sy == arg.a[1]
            fy == arg.a[2]
        IN  IF sy > fy THEN out = <<>>
            ELSE /\ Len(out) = 12 * (fy - sy + 1)
                 /\ \A y \in sy..fy : \A m \in 1..12 :
                       out[12 * (y - sy) + m] = WindowOf(y, m)

C11_Witness ==
    /\ arg.f = "permutate_dates"
    /\ arg.a[1] < arg.a[2]
    /\ Len(out) = 12 * (arg.a[2] - arg.a[1] + 1)

\* C16: partial-data tolerance.  For a fetched record with any sub-field missing,
\* fetch_article_data returns a record whose title, journal, authors and abstract
\* are strings, the missing ones the empty string.
C16_PartialData ==
    arg.f = "fetch_article_data" =>
        /\ out.title.ty = "str"
        /\ out.journal.ty = "str"
        /\ out.authors.ty = "str"
        /\ out.abstract.ty = "str"
        /\ ("ArticleTitle" \notin arg.a.has => out.title.s = <<>>)
        /\ ("Abstract" \notin arg.a.has => out.abstract.s = <<>>)
        /\ ("Journal" \notin arg.a.has => out.journal.s = <<>>)
        /\ ("AuthorList" \notin arg.a.has => out.authors.s = <<>>)

CursorSource ==
    IF detail0.exists
    THEN Last(DetailKeys(detail0))
    ELSE <<csvdr_iterable[1][S("term")], csvdr_iterable[1][S("date")],
           split(csvdr_iterable[1][S("pmcid_list")], ",")[1]>>

\* C13: cursor key round-trip.  For every term (terms holding '-' included), date
\* window and identifier, the three parts get_abstracts reads back from its cursor
\* key are the term, date window and identifier of the row the key was built from,
\* and a run that ends has matched the summary row and identifier of its cursor.
C13_CursorRoundTrip ==
    /\ (pc \in Running /\ ~go_on) =>
          /\ Len(split(current, "-")) = 3
          /\ <<split(current, "-")[1], split(current, "-")[2], split(current, "-")[3]>>
                = CursorSource
    /\ (pc = "done" /\ Len(csvdr_iterable) > 0 /\ (detail0.exists => CursorPositions # {}))
          => go_on

\* One step of a run that has consumed its cursor identifier
ResumingStep ==
    /\ go_on' /\ ~skip'
    /\ pc' \in Running \cup {"done"}
    /\ (pc = "row" /\ ti <= Len(csvdr_iterable)) => (pc' = "id" /\ ti' = ti /\ ii' = 1)
    /\ (pc = "id" /\ ii <= Len(pmcids)) => (pc' = "resolve" /\ ti' = ti /\ ii' = ii)
    /\ (pc = "id" /\ ii > Len(pmcids)) => (pc' = "row" /\ ti' = ti + 1)
    /\ pc = "resolve" => (pc' = "fetch" /\ calls' = Append(calls, <<"elink", ti, ii>>))
    /\ pc = "fetch" => (pc' = "write" /\ article_data'.term = termdate[S("term")])
    /\ pc = "write" =>
          /\ pc' = "advance"
          /\ calls' = Append(calls, <<"append", ti, ii>>)
          /\ Len(detail'.lines) = Len(detail.lines) + 1
          /\ Last(DetailKeys(detail')) = <<termdate[S("term")], termdate[S("date")], pmcid>>
    /\ pc = "advance" => (pc' = "id" /\ ti' = ti /\ ii' = ii + 1)

\* C14: Resuming is absorbing.  Once a run has consumed the cursor identifier
\* (go_on is true), go_on stays true and skip stays false until the run ends, and
\* every later identifier of the current row and of every later row is resolved,
\* fetched and appended, whatever its term, date window or value.
C14_ResumingAbsorbing ==
    [][(go_on /\ pc \in Running /\ pc' # "crashed") => ResumingStep]_vars

C14_Witness ==
    /\ go_on
    /\ pc = "advance"
    /\ ti > 1
    /\ ~RowMatches(termdate, current, FALSE)
    /\ Called("elink", <<ti, ii>>)
    /\ Called("append", <<ti, ii>>)

\* The number of calls of one kind the run has made
CountCalls(op) == Cardinality({k \in 1..Len(calls) : calls[k][1] = op})

\* The lines of the detail file once the run has created it or found it
LinesAtStart == IF detail0.exists THEN Len(detail0.lines) ELSE 1

\* C15: per-record durability order.  In every run the row of an identifier is
\* appended to the detail file, and the file closed, before the resolve call of the
\* next identifier is issued: at any moment at most one identifier has been
\* resolved or fetched without its row being on disk.
C15_DurabilityOrder ==
    pc \in Running \cup {"done"} =>
        /\ Len(detail.lines) = LinesAtStart + CountCalls("append")
        /\ CountCalls("elink") - CountCalls("append") \in {0, 1}
        /\ CountCalls("elink") - CountCalls("append") = 1 <=> pc \in {"fetch", "write"}
        /\ \A k \in 2..Len(calls) : calls[k][1] = "elink" => calls[k - 1][1] = "append"
        /\ \A k \in 1..Len(calls) : calls[k][1] = "append" =>
              /\ \E j \in 1..(k - 1) :
                    /\ calls[j] = <<"elink", calls[k][2], calls[k][3]>>
                    /\ \A n \in (j + 1)..(k - 1) : calls[n][1] = "efetch"
              /\ LET row == detail.lines[LinesAtStart + Cardinality({j \in 1..k : calls[j][1] = "append"})]
                 IN  row[5] = PmcidAt(<<calls[k][2], calls[k][3]>>)

C15_Witness ==
    /\ pc = "fetch"
    /\ CountCalls("append") >= 1
    /\ CountCalls("elink") = CountCalls("append") + 1
    /\ Len(detail.lines) = LinesAtStart + CountCalls("append")

\* C17: one row per identifier, zero-hit windows included.  After a complete run
\* from scratch the detail file has as many body rows as the identifier lists of
\* the summary dataset hold identifiers; a summary row with zero hits (an empty
\* pmcid_list) contributes no detail row and causes no resolve or fetch call.
C17_OneRowPerIdentifier ==
    (pc = "done" /\ ~detail0.exists) =>
        /\ Len(Rows(detail)) = Len(IdStream)
        /\ \A q \in Positions :
              csvdr_iterable[q[1]][S("pmcid_list")] = <<>> =>
                  /\ ~Called("elink", q)
                  /\ ~Called("efetch", q)
                  /\ ~Called("append", q)

\* C18: the summary file is written only after all searches.  In file mode
\* get_data appends no row to the summary dataset until the searches of all windows
\* have returned: when the search of window k fails, the file is exactly what it
\* was before the call, the summaries of windows 1..k-1 not being persisted.
C18_WriteAfterSearches ==
    /\ (list_output = FALSE /\ gpc = "search") => summary = summary0
    /\ (list_output = FALSE /\ gpc = "failed") =>
          /\ summary = summary0
          /\ Len(data_list) = Len(searches) - 1
    /\ (list_output = FALSE /\ gpc = "write") =>
          /\ Len(data_list) = Len(dates)
          /\ Len(summary.lines) >= Len(summary0.lines) + entry - 1

C18_Witness ==
    /\ list_output = FALSE
    /\ gpc = "failed"
    /\ Len(data_list) >= 1
    /\ \E k \in 1..Len(data_list) : data_list[k].pmcid_list # <<>>
    /\ Len(summary0.lines) > 1
    /\ summary = summary0

\* The run started from a detail file whose last row occurs nowhere in the summary
UnmatchedCursor ==
    /\ detail0.exists
    /\ Len(Rows(detail0)) > 0
    /\ ~Occurs(LastKey(detail0), Rows(summary))

\* C19: an unmatched cursor is a silent no-op.  When the (term, date, pmcid) of the
\* last detail row occurs in no summary row, the run ends normally, having issued
\* no remote call and appended no row, and leaves the detail dataset unchanged.
C19_UnmatchedNoOp ==
    (InRun /\ UnmatchedCursor) =>
        /\ pc \in {"row", "id", "done"}
        /\ calls = <<>>
        /\ detail = detail0
        /\ ~go_on

C19_Witness ==
    /\ pc = "done"
    /\ UnmatchedCursor
    /\ calls = <<>>
    /\ detail = detail0
    /\ \E k \in 1..Len(csvdr_iterable) :
          RowMatches(csvdr_iterable[k], current, FALSE)

====
